---- MODULE Spec2Model ----
(***************************************************************************)
(* State-machine model of the sales ETL pipeline (etl_pipeline.py,         *)
(* class SalesETL) and of the data-quality report of query_runner.py       *)
(* (class QueryRunner).                                                    *)
(*                                                                         *)
(* The store is the SQLite database file: a set of tables, each with the   *)
(* schema of its CREATE TABLE statement and a sequence of rows, plus the   *)
(* sqlite_sequence bookkeeping of AUTOINCREMENT tables.  Money is counted  *)
(* in hundredths (15.50 is 1550).  An empty CSV field is read by pandas as *)
(* a missing value (NaN) and written to the store as NULL; it is the value *)
(* NULL below.                                                             *)
(***************************************************************************)
EXTENDS Integers, Sequences, FiniteSets, TLC

(***************************************************************************)
(* Bounds of the model: the longest order and product source.              *)
(***************************************************************************)
MaxOrders == 2
MaxProducts == 2

NULL == "NULL"
None == "None"

(***************************************************************************)
(* Generic helpers on sequences.                                           *)
(***************************************************************************)
Range(s) == {s[i] : i \in 1..Len(s)}

SeqsUpTo(S, n) == UNION {[1..k -> S] : k \in 0..n}

RECURSIVE SeqMax(_)
SeqMax(s) ==
  IF s = <<>> THEN 0
  ELSE LET m == SeqMax(Tail(s)) IN IF Head(s) > m THEN Head(s) ELSE m

(* pandas Series.unique(): distinct values in order of first appearance;  *)
(* missing values compare equal to each other, so NULL is kept once.      *)
RECURSIVE Unique(_)
Unique(s) ==
  IF s = <<>> THEN <<>>
  ELSE LET init == Unique(SubSeq(s, 1, Len(s) - 1))
           last == s[Len(s)]
       IN IF last \in Range(init) THEN init ELSE Append(init, last)

(***************************************************************************)
(* The input sources.  Order and product records are drawn from the rows  *)
(* of create_test_data, extended with an order of a product the product   *)
(* source never holds (P999), an order stamped with a time of day, an     *)
(* order with a malformed date, and records whose ProductID field is      *)
(* empty.                                                                  *)
(***************************************************************************)
Date(y, m, d, hh) ==
  [parseable |-> TRUE, year |-> y, month |-> m, day |-> d, hour |-> hh]

(* A text pd.to_datetime rejects, such as "not-a-date" or an empty field. *)
NotADate == [parseable |-> FALSE, year |-> 0, month |-> 0, day |-> 0, hour |-> 0]

OrderRecords ==
  { [OrderID |-> 1001, ProductID |-> "P001", CustomerID |-> "C101",
     OrderDate |-> Date(2024, 1, 5, 0), Quantity |-> 2, Price |-> 1550],
    [OrderID |-> 1002, ProductID |-> "P999", CustomerID |-> "C102",
     OrderDate |-> Date(2024, 1, 5, 10), Quantity |-> 1, Price |-> 2500],
    [OrderID |-> 1003, ProductID |-> NULL, CustomerID |-> "C101",
     OrderDate |-> Date(2024, 4, 8, 0), Quantity |-> 3, Price |-> 1550],
    [OrderID |-> 1004, ProductID |-> "P001", CustomerID |-> "C103",
     OrderDate |-> NotADate, Quantity |-> 1, Price |-> 5000] }

ProductRecords ==
  { [ProductID |-> "P001", ProductName |-> "Keyboard",
     Category |-> "Peripherals", Cost |-> 1000],
    [ProductID |-> "P002", ProductName |-> "Mouse",
     Category |-> "Peripherals", Cost |-> 1800],
    [ProductID |-> NULL, ProductName |-> "Monitor",
     Category |-> "Displays", Cost |-> 4000] }

(* A source file: absent, or a header line and the records below it. *)
Missing == [exists |-> FALSE, rows |-> <<>>]

File(rows) == [exists |-> TRUE, rows |-> rows]

OrderFiles == {File(r) : r \in SeqsUpTo(OrderRecords, MaxOrders)} \cup {Missing}
ProductFiles == {File(r) : r \in SeqsUpTo(ProductRecords, MaxProducts)} \cup {Missing}

(* The data set written by create_test_data (first rows). *)
TestOrders ==
  << [OrderID |-> 1001, ProductID |-> "P001", CustomerID |-> "C101",
      OrderDate |-> Date(2024, 1, 5, 0), Quantity |-> 2, Price |-> 1550],
     [OrderID |-> 1002, ProductID |-> "P002", CustomerID |-> "C102",
      OrderDate |-> Date(2024, 1, 5, 0), Quantity |-> 1, Price |-> 2500] >>

TestProducts ==
  << [ProductID |-> "P001", ProductName |-> "Keyboard",
      Category |-> "Peripherals", Cost |-> 1000],
     [ProductID |-> "P002", ProductName |-> "Mouse",
      Category |-> "Peripherals", Cost |-> 1800] >>

(***************************************************************************)
(* The store.  A database is the record                                    *)
(*   [tables |-> name :> [pk, autoincrement, rows], sqlite_sequence |-> f] *)
(* where rows is the table's rows in rowid order.                          *)
(***************************************************************************)
EmptyDB == [tables |-> <<>>, sqlite_sequence |-> <<>>]

TableNames(db) == DOMAIN db.tables

Rows(db, t) == IF t \in TableNames(db) THEN db.tables[t].rows ELSE <<>>

Restrict(f, S) == [x \in S |-> f[x]]

(* DROP TABLE IF EXISTS t: the table and its sqlite_sequence entry go. *)
DropTableIfExists(db, t) ==
  [tables |-> Restrict(db.tables, DOMAIN db.tables \ {t}),
   sqlite_sequence |-> Restrict(db.sqlite_sequence, DOMAIN db.sqlite_sequence \ {t})]

(* CREATE TABLE t: rejected when t exists. *)
CanCreateTable(db, t) == t \notin TableNames(db)

CreateTable(db, t, pk, autoinc) ==
  [db EXCEPT !.tables =
     (t :> [pk |-> pk, autoincrement |-> autoinc, rows |-> <<>>]) @@ db.tables]

(***************************************************************************)
(* setup_database, lines 30-77: the statements in execution order.  The    *)
(* sqlite3 module opens no transaction for DDL, so each statement is       *)
(* durable as soon as it has run.                                          *)
(***************************************************************************)
tables_to_drop == <<"fact_sales", "dim_product", "dim_date", "dim_customer">>

DropStatements ==
  [i \in 1..Len(tables_to_drop) |-> [op |-> "drop", table |-> tables_to_drop[i]]]

CreateStatements ==
  << [op |-> "create", table |-> "dim_product", pk |-> "product_id", autoincrement |-> FALSE],
     [op |-> "create", table |-> "dim_date", pk |-> "date_key", autoincrement |-> FALSE],
     [op |-> "create", table |-> "dim_customer", pk |-> "customer_id", autoincrement |-> FALSE],
     [op |-> "create", table |-> "fact_sales", pk |-> "id", autoincrement |-> TRUE] >>

(* A setup that never drops: CREATE meets the tables of the run before. *)
SetupStatementsNoDrop == CreateStatements

SetupStatements == DropStatements \o CreateStatements

StatementFails(db, st) == st.op = "create" /\ ~CanCreateTable(db, st.table)

Execute(db, st) ==
  IF st.op = "drop" THEN DropTableIfExists(db, st.table)
  ELSE CreateTable(db, st.table, st.pk, st.autoincrement)

(* Runs the statements of sts in order until one fails or until `stop`    *)
(* statements have run (the store failing at statement stop + 1).         *)
RECURSIVE ExecuteScript(_, _, _)
ExecuteScript(db, sts, stop) ==
  IF sts = <<>> THEN [db |-> db, ok |-> TRUE]
  ELSE IF stop = 0 \/ StatementFails(db, Head(sts)) THEN [db |-> db, ok |-> FALSE]
  ELSE ExecuteScript(Execute(db, Head(sts)), Tail(sts), stop - 1)

(***************************************************************************)
(* DataFrame.to_sql(t, conn, if_exists='append', index=False): the rows of *)
(* the frame are inserted in one transaction that pandas commits, or rolls *)
(* back when an insert is rejected.                                        *)
(***************************************************************************)
Column(rows, c) == [i \in 1..Len(rows) |-> rows[i][c]]

(* A TEXT PRIMARY KEY column is UNIQUE; SQLite lets it hold NULL, and      *)
(* NULLs never collide.                                                    *)
PrimaryKeyViolated(keys) ==
  \E i, j \in 1..Len(keys) : i < j /\ keys[i] = keys[j] /\ keys[i] # NULL

LastRowId(db, t) ==
  LET inTable == SeqMax(Column(Rows(db, t), "id"))
      inSeq == IF t \in DOMAIN db.sqlite_sequence THEN db.sqlite_sequence[t] ELSE 0
  IN IF inTable > inSeq THEN inTable ELSE inSeq

(* The rows as stored: an AUTOINCREMENT table numbers them itself. *)
StoredRows(db, t, frame) ==
  IF db.tables[t].autoincrement
  THEN [i \in 1..Len(frame) |-> [id |-> LastRowId(db, t) + i] @@ frame[i]]
  ELSE frame

InsertRejected(db, t, frame) ==
  /\ ~db.tables[t].autoincrement
  /\ PrimaryKeyViolated(Column(Rows(db, t), db.tables[t].pk)
                        \o Column(frame, db.tables[t].pk))

ToSql(db, t, frame) ==
  IF frame = <<>> \/ InsertRejected(db, t, frame) THEN db
  ELSE [tables |-> [db.tables EXCEPT ![t].rows = @ \o StoredRows(db, t, frame)],
        sqlite_sequence |->
          IF db.tables[t].autoincrement
          THEN (t :> (LastRowId(db, t) + Len(frame))) @@ db.sqlite_sequence
          ELSE db.sqlite_sequence]

(***************************************************************************)
(* process_data.                                                           *)
(***************************************************************************)
Digits(n) == ToString(n)

Pad2(n) == IF n < 10 THEN "0" \o Digits(n) ELSE Digits(n)

Pad4(n) ==
  IF n < 10 THEN "000" \o Digits(n)
  ELSE IF n < 100 THEN "00" \o Digits(n)
  ELSE IF n < 1000 THEN "0" \o Digits(n)
  ELSE Digits(n)

(* strftime('%Y-%m-%d') *)
StrftimeYmd(d) == Pad4(d.year) \o "-" \o Pad2(d.month) \o "-" \o Pad2(d.day)

(* strftime('%B') *)
MonthName(m) ==
  << "January", "February", "March", "April", "May", "June", "July",
     "August", "September", "October", "November", "December" >>[m]

(* Line 104: pd.to_datetime raises when a value is no date. *)
ToDatetimeRaises(frame) == \E i \in 1..Len(frame) : ~frame[i].OrderDate.parseable

(* A key that keeps the time of day. *)
OrderDateKeyWithHour(ts) == StrftimeYmd(ts) \o " " \o Pad2(ts.hour)

(* Line 105: the date key of an order's timestamp. *)
OrderDateKey(ts) == StrftimeYmd(ts)

(* Lines 101-105 *)
DeriveOrder(o) ==
  [revenue |-> o.Quantity * o.Price, date_key |-> OrderDateKey(o.OrderDate)] @@ o

DeriveOrders(frame) == [i \in 1..Len(frame) |-> DeriveOrder(frame[i])]

(* The dtype read_csv gives the ProductID column: a column of a non-empty  *)
(* frame that holds only missing values is float64, any other is object.   *)
KeyDtype(frame) ==
  IF frame # <<>> /\ \A i \in 1..Len(frame) : frame[i].ProductID = NULL
  THEN "float64" ELSE "object"

(* pd.merge refuses to join a float64 key column with an object one. *)
MergeRaises(left, right) == KeyDtype(left) # KeyDtype(right)

Joined(o, p) ==
  [ProductName |-> p.ProductName, Category |-> p.Category, Cost |-> p.Cost] @@ o

Unmatched(o) == [ProductName |-> NULL, Category |-> NULL, Cost |-> NULL] @@ o

RECURSIVE SelectProducts(_, _)
SelectProducts(right, key) ==
  IF right = <<>> THEN <<>>
  ELSE (IF Head(right).ProductID = key THEN <<Head(right)>> ELSE <<>>)
       \o SelectProducts(Tail(right), key)

(* Line 108: pd.merge(orders, products, on='ProductID', how='left').  Every *)
(* order row is paired with each product row of the same ProductID, in     *)
(* order; missing keys match each other; an order without a match is kept  *)
(* once with missing product columns.                                      *)
RECURSIVE Merge(_, _)
Merge(left, right) ==
  IF left = <<>> THEN <<>>
  ELSE LET o == Head(left)
           hits == SelectProducts(right, o.ProductID)
       IN (IF hits = <<>> THEN <<Unmatched(o)>>
           ELSE [i \in 1..Len(hits) |-> Joined(o, hits[i])])
          \o Merge(Tail(left), right)

(* Lines 111-116 *)
ProductDimRow(p) ==
  [product_id |-> p.ProductID, product_name |-> p.ProductName,
   category |-> p.Category, cost |-> p.Cost]

ProductDim(frame) == [i \in 1..Len(frame) |-> ProductDimRow(frame[i])]

(* Lines 119-121 *)
CustomerDim(frame) ==
  LET ids == Unique(Column(frame, "CustomerID"))
  IN [i \in 1..Len(ids) |-> [customer_id |-> ids[i]]]

(* .dt.date *)
DateOf(ts) == [year |-> ts.year, month |-> ts.month, day |-> ts.day]

Quarter(month) == (month - 1) \div 3 + 1

(* Lines 126-137 *)
DateDimRow(date) ==
  [date_key |-> StrftimeYmd(date), full_date |-> date, year |-> date.year,
   month |-> date.month, day |-> date.day, month_name |-> MonthName(date.month),
   quarter |-> Quarter(date.month)]

(* Lines 124-139 *)
DateDim(frame) ==
  LET unique_dates == Unique([i \in 1..Len(frame) |-> DateOf(frame[i].OrderDate)])
  IN [i \in 1..Len(unique_dates) |-> DateDimRow(unique_dates[i])]

ProcessRaises(o, p) == ToDatetimeRaises(o) \/ MergeRaises(o, p)

(* Lines 152-158 *)
FactRow(s) ==
  [order_id |-> s.OrderID, product_id |-> s.ProductID, customer_id |-> s.CustomerID,
   date_key |-> s.date_key, quantity |-> s.Quantity, price |-> s.Price,
   revenue |-> s.revenue]

FactData(sales) == [i \in 1..Len(sales) |-> FactRow(sales[i])]

(***************************************************************************)
(* query_runner.py: run_data_quality_check through run_query.  The query   *)
(* reads FactSales, DimProduct, DimDate and DimCustomer; when the store    *)
(* has no such table the query raises and run_query returns None.          *)
(***************************************************************************)
QueryTables == {"FactSales", "DimProduct", "DimDate", "DimCustomer"}

QueryRaises(db) == ~(QueryTables \subseteq TableNames(db))

(* The count of FactSales LEFT JOIN dim ON f.col = d.col WHERE d.col IS NULL *)
CountUnmatched(db, dim, col) ==
  LET f == Column(Rows(db, "FactSales"), col)
      d == Range(Column(Rows(db, dim), col)) \ {NULL}
  IN Cardinality({i \in 1..Len(f) : f[i] \notin d})

NoResult == [returned |-> None, missing_product |-> 0, missing_date |-> 0,
             missing_customer |-> 0]

DataQualityCheck(db) ==
  IF QueryRaises(db) THEN NoResult
  ELSE [returned |-> "DataFrame",
        missing_product |-> CountUnmatched(db, "DimProduct", "ProductID"),
        missing_date |-> CountUnmatched(db, "DimDate", "DateKey"),
        missing_customer |-> CountUnmatched(db, "DimCustomer", "CustomerID")]

(***************************************************************************)
(* The state.                                                              *)
(***************************************************************************)
VARIABLES
  orders_file,    \* data/orders.csv: a File, or Missing
  products_file,  \* data/products.csv: a File, or Missing
  disk,           \* the committed content of the database file
  conn,           \* self.conn: "None", "open" or "closed"
  orders,         \* self.orders
  products,       \* self.products
  sales_data,     \* self.sales_data
  product_dim,    \* self.product_dim
  customer_dim,   \* self.customer_dim
  date_dim,       \* self.date_dim
  pc,             \* where run_pipeline stands
  exc,            \* the exception in flight, or None
  retval,         \* what run_pipeline returns: None (not yet), "True", "False"
  written,        \* the tables save_to_database has written in this call, in order
  stages,         \* the stages this call has completed, in order
  started,        \* the store when this call began
  faulted,        \* whether the environment (store, file system) failed in this call
  prev,           \* outcome of the call before, on the same inputs
  quality         \* what run_data_quality_check returned after the run

frames == <<orders, products, sales_data, product_dim, customer_dim, date_dim>>
inputs == <<orders_file, products_file>>
history == <<stages, started, faulted, prev>>
vars == <<inputs, disk, conn, frames, pc, exc, retval, written, history, quality>>

NotRun == [returned |-> "NotRun", missing_product |-> 0, missing_date |-> 0,
           missing_customer |-> 0]

NoPrev == [clean |-> FALSE, disk |-> EmptyDB, retval |-> None]

(***************************************************************************)
(* The store a complete run on the given sources leaves.                   *)
(***************************************************************************)
LoadedStore(o, p) ==
  LET schema == ExecuteScript(EmptyDB, SetupStatements, Len(SetupStatements)).db
      d1 == ToSql(schema, "dim_product", ProductDim(p))
      d2 == ToSql(d1, "dim_customer", CustomerDim(o))
      d3 == ToSql(d2, "dim_date", DateDim(o))
  IN ToSql(d3, "fact_sales", FactData(Merge(DeriveOrders(o), p)))

(* The database file before the first run: absent, or loaded by an        *)
(* earlier run on the test data.                                          *)
PriorStores == {EmptyDB, LoadedStore(TestOrders, TestProducts)}

Init ==
  /\ orders_file \in OrderFiles
  /\ products_file \in ProductFiles
  /\ disk \in PriorStores
  /\ conn = None
  /\ orders = None /\ products = None /\ sales_data = None
  /\ product_dim = None /\ customer_dim = None /\ date_dim = None
  /\ pc = "idle"
  /\ exc = None
  /\ retval = None
  /\ written = <<>>
  /\ stages = <<>>
  /\ started = disk
  /\ faulted = FALSE
  /\ prev = NoPrev
  /\ quality = NotRun

(***************************************************************************)
(* run_pipeline, lines 166-192.                                            *)
(***************************************************************************)
Enter ==
  /\ pc' = "setup"
  /\ exc' = None
  /\ retval' = None
  /\ written' = <<>>
  /\ stages' = <<>>
  /\ started' = disk
  /\ faulted' = FALSE
  /\ quality' = NotRun
  /\ UNCHANGED <<inputs, disk, conn, frames>>

(* The first call on a SalesETL object. *)
Call ==
  /\ pc = "idle"
  /\ prev' = NoPrev
  /\ Enter

(* The same object runs the pipeline again on the same files. *)
CallAgain ==
  /\ pc = "done"
  /\ prev' = IF faulted THEN NoPrev
             ELSE [clean |-> TRUE, disk |-> disk, retval |-> retval]
  /\ Enter

Raise(e, fault) ==
  /\ pc' = "except"
  /\ exc' = e
  /\ faulted' = (faulted \/ fault)

(* Line 26: sqlite3.connect fails; self.conn keeps its value. *)
SetupConnectFails ==
  /\ pc = "setup"
  /\ Raise("OperationalError", TRUE)
  /\ UNCHANGED <<inputs, disk, conn, frames, retval, written, stages, started,
                 prev, quality>>

(* Lines 26-79: connect, then the DDL; the store may fail after `stop`    *)
(* statements.  conn.commit() at line 79 finds no open transaction.       *)
SetupDatabase ==
  /\ pc = "setup"
  /\ conn' = "open"
  /\ \E stop \in 0..Len(SetupStatements) :
       LET r == ExecuteScript(disk, SetupStatements, stop) IN
         /\ disk' = r.db
         /\ IF r.ok
            THEN /\ pc' = "load"
                 /\ stages' = Append(stages, "setup")
                 /\ UNCHANGED <<exc, faulted>>
            ELSE /\ Raise("OperationalError", stop < Len(SetupStatements))
                 /\ UNCHANGED stages
  /\ UNCHANGED <<inputs, frames, retval, written, started, prev, quality>>

(* Lines 87-94, then 178-179: a missing file makes load_csv_files return  *)
(* False and run_pipeline return False.                                   *)
LoadCsvFiles ==
  /\ pc = "load"
  /\ orders' = IF orders_file.exists THEN orders_file.rows ELSE orders
  /\ products' = IF orders_file.exists /\ products_file.exists
                 THEN products_file.rows ELSE products
  /\ IF ~orders_file.exists \/ ~products_file.exists
     THEN /\ retval' = "False"
          /\ pc' = "finally"
          /\ UNCHANGED stages
     ELSE /\ pc' = "process"
          /\ stages' = Append(stages, "load")
          /\ UNCHANGED retval
  /\ UNCHANGED <<inputs, disk, conn, sales_data, product_dim, customer_dim,
                 date_dim, exc, written, started, faulted, prev, quality>>

(* Line 88: read_csv fails other than by FileNotFoundError (an unreadable *)
(* or unparsable file); load_csv_files does not catch it.                 *)
LoadCsvReadError ==
  /\ pc = "load"
  /\ orders_file.exists
  /\ Raise("ParserError", TRUE)
  /\ UNCHANGED <<inputs, disk, conn, frames, retval, written, stages, started,
                 prev, quality>>

(* Lines 101-140 *)
ProcessData ==
  /\ pc = "process"
  /\ IF ProcessRaises(orders, products)
     THEN /\ Raise("ValueError", FALSE)
          /\ UNCHANGED <<sales_data, product_dim, customer_dim, date_dim, stages>>
     ELSE /\ sales_data' = Merge(DeriveOrders(orders), products)
          /\ product_dim' = ProductDim(products)
          /\ customer_dim' = CustomerDim(orders)
          /\ date_dim' = DateDim(orders)
          /\ pc' = "save"
          /\ stages' = Append(stages, "process")
          /\ UNCHANGED <<exc, faulted>>
  /\ UNCHANGED <<inputs, disk, conn, orders, products, retval, written, started,
                 prev, quality>>

(* A load that writes the fact table first. *)
SaveOrderFactFirst == <<"fact_sales", "dim_product", "dim_customer", "dim_date">>

(* Lines 147-160: the tables in the order save_to_database writes them. *)
SaveOrder == <<"dim_product", "dim_customer", "dim_date", "fact_sales">>

Frame(t) ==
  CASE t = "dim_product" -> product_dim
    [] t = "dim_customer" -> customer_dim
    [] t = "dim_date" -> date_dim
    [] t = "fact_sales" -> FactData(sales_data)

(* One to_sql call of save_to_database. *)
SaveTable ==
  /\ pc = "save"
  /\ Len(written) < Len(SaveOrder)
  /\ LET t == SaveOrder[Len(written) + 1] IN
       IF InsertRejected(disk, t, Frame(t))
       THEN /\ Raise("IntegrityError", FALSE)
            /\ UNCHANGED <<disk, written>>
       ELSE /\ disk' = ToSql(disk, t, Frame(t))
            /\ written' = Append(written, t)
            /\ UNCHANGED <<pc, exc, faulted>>
  /\ UNCHANGED <<inputs, conn, frames, retval, stages, started, prev, quality>>

(* The store fails during a to_sql call; pandas rolls the insert back. *)
SaveTableStoreError ==
  /\ pc = "save"
  /\ Len(written) < Len(SaveOrder)
  /\ Raise("OperationalError", TRUE)
  /\ UNCHANGED <<inputs, disk, conn, frames, retval, written, stages, started,
                 prev, quality>>

(* Line 161, then 184-185: every to_sql call has committed its own rows,  *)
(* so the commit has nothing left to make durable.                        *)
Commit ==
  /\ pc = "save"
  /\ Len(written) = Len(SaveOrder)
  /\ stages' = Append(stages, "save")
  /\ retval' = "True"
  /\ pc' = "finally"
  /\ UNCHANGED <<inputs, disk, conn, frames, exc, written, started, faulted,
                 prev, quality>>

CommitFails ==
  /\ pc = "save"
  /\ Len(written) = Len(SaveOrder)
  /\ Raise("OperationalError", TRUE)
  /\ UNCHANGED <<inputs, disk, conn, frames, retval, written, stages, started,
                 prev, quality>>

(* An except clause that handles database errors only. *)
CaughtDatabaseErrorsOnly(e) == e \in {"OperationalError", "IntegrityError"}

(* Line 187: except Exception. *)
Caught(e) == e \in {"OperationalError", "IntegrityError", "ValueError", "ParserError"}

(* Lines 187-189 *)
Except ==
  /\ pc = "except"
  /\ pc' = "finally"
  /\ IF Caught(exc)
     THEN exc' = None /\ retval' = "False"
     ELSE UNCHANGED <<exc, retval>>
  /\ UNCHANGED <<inputs, disk, conn, frames, written, history, quality>>

(* A finally clause that forgets the connection. *)
ConnAfterFinallyLeak(c) == c

(* Lines 191-192: if self.conn: self.conn.close() *)
ConnAfterFinally(c) == IF c = "open" THEN "closed" ELSE c

(* Lines 190-192, then the return (or the exception leaving the call). *)
Finally ==
  /\ pc = "finally"
  /\ conn' = ConnAfterFinally(conn)
  /\ pc' = IF exc = None THEN "done" ELSE "raised"
  /\ UNCHANGED <<inputs, disk, frames, exc, retval, written, history, quality>>

(* query_runner.py lines 142-165, on the store the run has left. *)
RunDataQualityCheck ==
  /\ pc = "done"
  /\ quality = NotRun
  /\ quality' = DataQualityCheck(disk)
  /\ UNCHANGED <<inputs, disk, conn, frames, pc, exc, retval, written, history>>

Next ==
  \/ Call
  \/ CallAgain
  \/ SetupConnectFails
  \/ SetupDatabase
  \/ LoadCsvFiles
  \/ LoadCsvReadError
  \/ ProcessData
  \/ SaveTable
  \/ SaveTableStoreError
  \/ Commit
  \/ CommitFails
  \/ Except
  \/ Finally
  \/ RunDataQualityCheck

Spec == Init /\ [][Next]_vars

TypeOK ==
  /\ pc \in {"idle", "setup", "load", "process", "save", "except", "finally",
             "done", "raised"}
  /\ conn \in {None, "open", "closed"}
  /\ retval \in {None, "True", "False"}
  /\ faulted \in BOOLEAN

(***************************************************************************)
(* Vocabulary of the properties.                                           *)
(***************************************************************************)
Returned == pc = "done"

Succeeded == pc = "done" /\ retval = "True"

DimensionTables == {"dim_product", "dim_customer", "dim_date"}

AllStages == <<"setup", "load", "process", "save">>

WithoutId(rows) ==
  [i \in 1..Len(rows) |-> Restrict(rows[i], DOMAIN rows[i] \ {"id"})]

(* The four tables hold exactly the rows this run derived. *)
RunRowsVisible ==
  /\ Rows(disk, "dim_product") = product_dim
  /\ Rows(disk, "dim_customer") = customer_dim
  /\ Rows(disk, "dim_date") = date_dim
  /\ WithoutId(Rows(disk, "fact_sales")) = FactData(sales_data)

KeyColumn(db, t) == Column(Rows(db, t), db.tables[t].pk)

DuplicateKey(keys) == \E i, j \in 1..Len(keys) : i < j /\ keys[i] = keys[j]

(* The orders of the order source whose product the product source lacks. *)
OrdersWithoutProduct ==
  {i \in 1..Len(orders_file.rows) :
     orders_file.rows[i].ProductID
       \notin Range(Column(products_file.rows, "ProductID"))}

(* C1: every run either succeeds with the full set of rows of the run     *)
(* visible in the four tables, or fails and leaves the store as it was    *)
(* when the run began.                                                     *)
C1_AllOrNothing ==
  Returned => \/ retval = "True" /\ RunRowsVisible
              \/ retval = "False" /\ disk = started

(* C2: when the order source is missing the run returns failure and the   *)
(* store holds the tables and rows it held before the call.                *)
C2_MissingOrdersLeaveStoreAlone ==
  (Returned /\ ~orders_file.exists /\ ~faulted)
    => (retval = "False" /\ disk = started)

(* C3: a run that follows a run on the same sources leaves the four       *)
(* tables, ids included, exactly as the first run left them, whatever the *)
(* store held before the first.                                           *)
C3_RerunIdempotent ==
  (Returned /\ prev.clean /\ ~faulted)
    => (disk = prev.disk /\ retval = prev.retval)

C3_Witness ==
  /\ Succeeded /\ prev.clean /\ ~faulted
  /\ Len(Rows(disk, "fact_sales")) = 2
  /\ Len(Rows(started, "fact_sales")) = 2

(* C4: after a load fact_sales has exactly one row per order record,      *)
(* whatever the product source holds.                                      *)
C4_OneFactRowPerOrder ==
  Succeeded => Len(Rows(disk, "fact_sales")) = Len(orders_file.rows)

(* C5: once the schema of the run is set up, fact_sales holds rows or has *)
(* been written only if the three dimension tables were written before.   *)
C5_DimensionsBeforeFact ==
  ("setup" \in Range(stages)
     /\ (Rows(disk, "fact_sales") # <<>> \/ "fact_sales" \in Range(written)))
    => DimensionTables \subseteq Range(written)

C5_Witness ==
  /\ pc = "save"
  /\ "fact_sales" \in Range(written)
  /\ Len(Rows(disk, "fact_sales")) = 2

(* C6: in every state of the store, the date_key of every fact_sales row  *)
(* is a key of dim_date and its customer_id a key of dim_customer.        *)
C6_FactKeysInDimensions ==
  \A i \in 1..Len(Rows(disk, "fact_sales")) :
    LET f == Rows(disk, "fact_sales")[i] IN
      /\ f.date_key \in Range(Column(Rows(disk, "dim_date"), "date_key"))
      /\ f.customer_id \in Range(Column(Rows(disk, "dim_customer"), "customer_id"))

C6_Witness ==
  /\ Succeeded
  /\ started = EmptyDB
  /\ Len(orders_file.rows) = 2
  /\ Len(Rows(disk, "fact_sales")) = 2
  /\ \E i \in 1..2 : orders_file.rows[i].OrderDate.hour # 0
  /\ Len(Rows(disk, "dim_date")) = 1
  /\ Len(Rows(disk, "dim_customer")) = 2

(* C7: when orders name a product the product source lacks, the load      *)
(* succeeds, keeps the identifier in the fact rows, and the data-quality  *)
(* check run on the loaded store reports as missing product references    *)
(* the number of such orders.                                              *)
C7_MissingProductsReported ==
  (Succeeded /\ OrdersWithoutProduct # {} /\ quality.returned # "NotRun")
    => /\ Column(Rows(disk, "fact_sales"), "product_id")
            = Column(orders_file.rows, "ProductID")
       /\ quality.returned = "DataFrame"
       /\ quality.missing_product = Cardinality(OrdersWithoutProduct)

(* C8: whenever run_pipeline has returned, or an exception has left it,   *)
(* the connection the run opened is closed.                                *)
C8_ConnectionReleased ==
  pc \in {"done", "raised"}
    => (conn # "open" /\ (stages # <<>> => conn = "closed"))

C8_Witness ==
  /\ Returned /\ retval = "False"
  /\ conn = "closed"
  /\ stages = <<"setup", "load", "process">>
  /\ Len(written) = 2

(* C9: no failure leaves run_pipeline as an exception; a run in which a   *)
(* stage failed returns False, and a run returns True exactly when setup, *)
(* input loading, transformation and save completed, in that order.       *)
C9_FailuresBecomeFalse ==
  /\ pc # "raised"
  /\ Returned => /\ retval \in {"True", "False"}
                 /\ exc = None
                 /\ (retval = "True") <=> (stages = AllStages)
                 /\ faulted => retval = "False"

C9_Witness ==
  /\ Returned /\ retval = "False"
  /\ stages = <<"setup", "load">>
  /\ ~faulted
  /\ ToDatetimeRaises(orders)

(* C10: no dimension table ever holds two rows of the same key, and after *)
(* a successful run each holds one row per distinct identifier of its     *)
(* source.                                                                 *)
C10_DimensionKeysUnique ==
  /\ \A t \in DimensionTables \cap TableNames(disk) : ~DuplicateKey(KeyColumn(disk, t))
  /\ Succeeded =>
       /\ Len(Rows(disk, "dim_product"))
            = Cardinality(Range(Column(products_file.rows, "ProductID")))
       /\ Len(Rows(disk, "dim_customer"))
            = Cardinality(Range(Column(orders_file.rows, "CustomerID")))
       /\ Len(Rows(disk, "dim_date"))
            = Cardinality({OrderDateKey(orders_file.rows[i].OrderDate) :
                             i \in 1..Len(orders_file.rows)})

====
